---- MODULE Spec2Model ----
(***************************************************************************)
(* A model of the regexp crate: the lexer (src/lexer.rs), the parser       *)
(* (src/parser.rs) and the public Regex type (src/lib.rs).                 *)
(*                                                                         *)
(* Strings are sequences of one-character strings, so that "a*b" is        *)
(* <<"a", "*", "b">>.  A Token is a record [kind, text]: text holds the    *)
(* payload of Literal (the run) and Backslash (the escaped character) and  *)
(* is empty for every other variant.  A Result or Option is a record       *)
(* [kind, tokens, msg] with kind "None", "Ok" or "Err".                    *)
(***************************************************************************)
EXTENDS Integers, Sequences, FiniteSets, TLC

VARIABLES
    expression,   \* lex / Regex::new: the pattern text
    iter,         \* lex: number of characters the iterator has yielded
    tokens,       \* lex: the local token vector
    lex_ret,      \* lex: the value returned (None while running)
    parser,       \* Parser: [tokens, current_token_idx, current_node]
    parse_pc,     \* Parser::parse: "idle", "new", "loop" or "done"
    parse_ret,    \* Parser::parse: the value returned (None while running)
    last_call,    \* Parser::parse_next: the handler that returned last
    regex,        \* Regex::new: the value returned (None before the call)
    calls         \* is_match callers: thread -> [pc, text, ret]

vars == <<expression, iter, tokens, lex_ret, parser, parse_pc, parse_ret,
          last_call, regex, calls>>

lexVars == <<expression, iter, tokens, lex_ret>>
parseVars == <<parser, parse_pc, parse_ret, last_call>>
regexVars == <<regex, calls>>

-----------------------------------------------------------------------------
(* Bounds *)

MaxLen == 3
MaxTokens == 4
MaxText == 2

\* The characters patterns are drawn from: the fifteen operators, the
\* backslash, alphanumerics, whitespace and unsupported punctuation.
OperatorChars ==
    {"*", "+", "?", "(", ")", "|", "[", "]", "{", "}", ",", ".", "^", "$", "-"}
Alphabet == OperatorChars \cup {"\\", "a", "b", " ", "@", "#"}

\* The patterns Regex values are built from, the texts they are matched
\* against, and the threads that share one Regex.
RegexAlphabet == {"a", "b", "*", "\\"}
TextAlphabet == {"a", "b"}
Threads == {"t1", "t2"}

RECURSIVE SeqsUpTo(_, _)
SeqsUpTo(S, n) ==
    IF n = 0 THEN {<<>>}
    ELSE LET shorter == SeqsUpTo(S, n - 1)
         IN  shorter \cup {Append(s, c) : s \in {t \in shorter : Len(t) = n - 1}, c \in S}

-----------------------------------------------------------------------------
(* Tokens, Option and Result *)

Tok(k) == [kind |-> k, text |-> <<>>]
Literal(s) == [kind |-> "Literal", text |-> s]
Backslash(c) == [kind |-> "Backslash", text |-> <<c>>]

None == [kind |-> "None", tokens |-> <<>>, msg |-> <<>>]
Ok(ts) == [kind |-> "Ok", tokens |-> ts, msg |-> <<>>]
Err(m) == [kind |-> "Err", tokens |-> <<>>, msg |-> m]

is_unary_postfix(t) == t.kind \in {"KleeneStar", "KleenePlus", "Question"}

is_alphanumeric(c) == c \in {"a", "b", "c", "0", "1", "2", "3"}
is_whitespace(c) == c \in {" "}

-----------------------------------------------------------------------------
(* lexer::lex *)

\* The fifteen single-character arms of the match.
OperatorToken(c) ==
    CASE c = "*" -> Tok("KleeneStar")
      [] c = "+" -> Tok("KleenePlus")
      [] c = "?" -> Tok("Question")
      [] c = "(" -> Tok("LParen")
      [] c = ")" -> Tok("RParen")
      [] c = "|" -> Tok("VBar")
      [] c = "[" -> Tok("LBracket")
      [] c = "]" -> Tok("RBracket")
      [] c = "{" -> Tok("LBrace")
      [] c = "}" -> Tok("RBrace")
      [] c = "," -> Tok("Comma")
      [] c = "." -> Tok("Dot")
      [] c = "^" -> Tok("Caret")
      [] c = "$" -> Tok("Dollar")
      [] c = "-" -> Tok("Dash")

\* A lexer state is [iter, tokens, ret]; each arm takes the state after
\* iter.next() has yielded c and returns the state after the arm.

LexOperatorArm(e, st, c) ==
    [st EXCEPT !.tokens = Append(@, OperatorToken(c))]

\* Variant: a trailing backslash is ignored instead of reported.
LexBackslashArmLenient(e, st, c) ==
    IF st.iter < Len(e)
    THEN [st EXCEPT !.iter = @ + 1, !.tokens = Append(@, Backslash(e[st.iter + 1]))]
    ELSE st

LexBackslashArm(e, st, c) ==
    IF st.iter < Len(e)
    THEN [st EXCEPT !.iter = @ + 1, !.tokens = Append(@, Backslash(e[st.iter + 1]))]
    ELSE [st EXCEPT !.ret = Err(<<"Invalid escape sequence">>)]

\* The number of characters from position i on that the while-let loop takes.
RECURSIVE RunLength(_, _)
RunLength(e, i) ==
    IF i <= Len(e) /\ (is_alphanumeric(e[i]) \/ is_whitespace(e[i]))
    THEN 1 + RunLength(e, i + 1)
    ELSE 0

\* Variant: every literal character becomes a token of its own.
LexLiteralArmNoMerge(e, st, c) ==
    [st EXCEPT !.tokens = Append(@, Literal(<<c>>))]

\* Variant: the first character of the run is not pushed onto the literal.
LexLiteralArmDropFirst(e, st, c) ==
    LET n == RunLength(e, st.iter + 1)
    IN  [st EXCEPT !.iter = @ + n,
                   !.tokens = Append(@, Literal(SubSeq(e, st.iter + 1, st.iter + n)))]

LexLiteralArm(e, st, c) ==
    LET n == RunLength(e, st.iter + 1)
        literal == <<c>> \o SubSeq(e, st.iter + 1, st.iter + n)
    IN  [st EXCEPT !.iter = @ + n, !.tokens = Append(@, Literal(literal))]

\* Variant: an unsupported character is skipped.
LexUnexpectedArmSkip(e, st, c) == st

LexUnexpectedArm(e, st, c) ==
    [st EXCEPT !.ret = Err(<<"Unexpected character: '", c, "'">>)]

\* One iteration of the loop.
LexIteration(e, st) ==
    IF st.iter >= Len(e)
    THEN [st EXCEPT !.ret = Ok(st.tokens)]
    ELSE LET c == e[st.iter + 1]
             s1 == [st EXCEPT !.iter = @ + 1]
         IN  CASE c \in OperatorChars -> LexOperatorArm(e, s1, c)
               [] c = "\\" -> LexBackslashArm(e, s1, c)
               [] c \notin OperatorChars /\ c # "\\"
                    /\ (is_alphanumeric(c) \/ is_whitespace(c)) -> LexLiteralArm(e, s1, c)
               [] OTHER -> LexUnexpectedArm(e, s1, c)

LexStart == [iter |-> 0, tokens |-> <<>>, ret |-> None]

RECURSIVE LexRun(_, _)
LexRun(e, st) == IF st.ret.kind # "None" THEN st.ret ELSE LexRun(e, LexIteration(e, st))

lex(e) == LexRun(e, LexStart)

\* The loop of lex as steps on the variables.
LexState == [iter |-> iter, tokens |-> tokens, ret |-> lex_ret]

LexApply ==
    LET st == LexIteration(expression, LexState)
    IN  /\ iter' = st.iter
        /\ tokens' = st.tokens
        /\ lex_ret' = st.ret
        /\ UNCHANGED <<expression, parseVars, regexVars>>

LexRunning == lex_ret.kind = "None"
NextChar == expression[iter + 1]

LexOperator ==
    /\ LexRunning /\ iter < Len(expression)
    /\ NextChar \in OperatorChars
    /\ LexApply

LexEscape ==
    /\ LexRunning /\ iter < Len(expression)
    /\ NextChar = "\\"
    /\ LexApply

LexLiteral ==
    /\ LexRunning /\ iter < Len(expression)
    /\ NextChar \notin OperatorChars /\ NextChar # "\\"
    /\ (is_alphanumeric(NextChar) \/ is_whitespace(NextChar))
    /\ LexApply

LexUnexpected ==
    /\ LexRunning /\ iter < Len(expression)
    /\ NextChar \notin OperatorChars /\ NextChar # "\\"
    /\ ~(is_alphanumeric(NextChar) \/ is_whitespace(NextChar))
    /\ LexApply

LexEnd ==
    /\ LexRunning /\ iter >= Len(expression)
    /\ LexApply

ParserIdle == [tokens |-> <<>>, current_token_idx |-> 0, current_node |-> <<>>]

LexInit ==
    /\ expression \in SeqsUpTo(Alphabet, MaxLen)
    /\ iter = 0
    /\ tokens = <<>>
    /\ lex_ret = None
    /\ parser = ParserIdle
    /\ parse_pc = "idle"
    /\ parse_ret = None
    /\ last_call = "none"
    /\ regex = None
    /\ calls = [t \in Threads |-> [pc |-> "idle", text |-> <<>>, ret |-> FALSE]]

LexNext == LexOperator \/ LexEscape \/ LexLiteral \/ LexUnexpected \/ LexEnd

LexSpec == LexInit /\ [][LexNext]_vars

-----------------------------------------------------------------------------
(* Properties of lex, stated against a reading of the pattern that does   *)
(* not use the lexer: which positions are escaped, where the literal runs *)
(* are, and where the first unsupported character is.                     *)

\* Position i holds the character consumed by a backslash at i - 1.
RECURSIVE Escaped(_, _)
Escaped(e, i) == i > 1 /\ e[i - 1] = "\\" /\ ~Escaped(e, i - 1)

Unsupported(c) ==
    c \notin OperatorChars /\ c # "\\" /\ ~is_alphanumeric(c) /\ ~is_whitespace(c)

InRun(e, i) == (is_alphanumeric(e[i]) \/ is_whitespace(e[i])) /\ ~Escaped(e, i)

RECURSIVE RunEnd(_, _)
RunEnd(e, i) == IF i < Len(e) /\ InRun(e, i + 1) THEN RunEnd(e, i + 1) ELSE i

\* The maximal runs of unescaped alphanumeric-or-whitespace characters.
RECURSIVE RunsFrom(_, _)
RunsFrom(e, i) ==
    IF i > Len(e) THEN <<>>
    ELSE IF InRun(e, i)
         THEN <<SubSeq(e, i, RunEnd(e, i))>> \o RunsFrom(e, RunEnd(e, i) + 1)
         ELSE RunsFrom(e, i + 1)

RECURSIVE TextsOf(_, _)
TextsOf(ts, k) ==
    IF ts = <<>> THEN <<>>
    ELSE IF Head(ts).kind = k THEN <<Head(ts).text>> \o TextsOf(Tail(ts), k)
         ELSE TextsOf(Tail(ts), k)

\* The characters that follow an unescaped backslash, in order.
RECURSIVE EscapedFrom(_, _)
EscapedFrom(e, i) ==
    IF i > Len(e) THEN <<>>
    ELSE IF Escaped(e, i) THEN <<<<e[i]>>>> \o EscapedFrom(e, i + 1)
         ELSE EscapedFrom(e, i + 1)

BadPositions(e) == {i \in 1..Len(e) : Unsupported(e[i]) /\ ~Escaped(e, i)}
FirstBad(e) == CHOOSE i \in BadPositions(e) : \A j \in BadPositions(e) : i <= j

TrailingBackslash(e) == Len(e) > 0 /\ e[Len(e)] = "\\" /\ ~Escaped(e, Len(e))

\* The source text of a token.
TokenText(t) ==
    CASE t.kind = "Literal" -> t.text
      [] t.kind = "Backslash" -> <<"\\">> \o t.text
      [] t.kind = "KleeneStar" -> <<"*">>
      [] t.kind = "KleenePlus" -> <<"+">>
      [] t.kind = "Question" -> <<"?">>
      [] t.kind = "LParen" -> <<"(">>
      [] t.kind = "RParen" -> <<")">>
      [] t.kind = "VBar" -> <<"|">>
      [] t.kind = "LBracket" -> <<"[">>
      [] t.kind = "RBracket" -> <<"]">>
      [] t.kind = "LBrace" -> <<"{">>
      [] t.kind = "RBrace" -> <<"}">>
      [] t.kind = "Comma" -> <<",">>
      [] t.kind = "Dot" -> <<".">>
      [] t.kind = "Caret" -> <<"^">>
      [] t.kind = "Dollar" -> <<"$">>
      [] t.kind = "Dash" -> <<"-">>

RECURSIVE Unlex(_)
Unlex(ts) == IF ts = <<>> THEN <<>> ELSE TokenText(Head(ts)) \o Unlex(Tail(ts))

LexDone == lex_ret.kind # "None"

\* C4: when lex succeeds, the Literal tokens are, in order, exactly the
\* maximal runs of unescaped alphanumeric-or-whitespace characters of the
\* pattern; so every Literal is non-empty and no two Literals are adjacent;
\* and "a*b" lexes to [Literal("a"), KleeneStar, Literal("b")].
C4_LongestMatchLiterals ==
    lex_ret.kind = "Ok" =>
        /\ TextsOf(lex_ret.tokens, "Literal") = RunsFrom(expression, 1)
        /\ \A i \in 1..Len(lex_ret.tokens) :
             lex_ret.tokens[i].kind = "Literal" =>
                /\ lex_ret.tokens[i].text # <<>>
                /\ i > 1 => lex_ret.tokens[i - 1].kind # "Literal"
        /\ expression = <<"a", "*", "b">> =>
             lex_ret.tokens = <<Literal(<<"a">>), Tok("KleeneStar"), Literal(<<"b">>)>>

\* A run of two characters was merged into one Literal next to another token.
C4_Witness ==
    /\ lex_ret.kind = "Ok"
    /\ Len(lex_ret.tokens) >= 2
    /\ \E i \in 1..Len(lex_ret.tokens) :
         lex_ret.tokens[i].kind = "Literal" /\ Len(lex_ret.tokens[i].text) >= 2

\* C5: when lex succeeds, writing every token back as its source text, in
\* token order, gives the pattern again.
C5_RoundTrip == lex_ret.kind = "Ok" => Unlex(lex_ret.tokens) = expression

\* A successful lex that produced an escaped operator character and a literal.
C5_Witness ==
    /\ lex_ret.kind = "Ok"
    /\ \E i, j \in 1..Len(lex_ret.tokens) :
         /\ lex_ret.tokens[i].kind = "Backslash"
         /\ lex_ret.tokens[i].text[1] \in OperatorChars
         /\ lex_ret.tokens[j].kind = "Literal"

\* C6: a backslash consumes exactly the next character, whatever it is, and
\* emits it as one Backslash token: the lexer never stops between a backslash
\* and its character, and the Backslash tokens are, in order, the characters
\* that follow the unescaped backslashes.  lex returns "Invalid escape
\* sequence" exactly when the pattern ends with an unescaped backslash and no
\* unsupported character precedes it.
C6_Escapes ==
    /\ lex_ret.kind # "Err" =>
         /\ ~Escaped(expression, iter + 1)
         /\ TextsOf(tokens, "Backslash") = EscapedFrom(SubSeq(expression, 1, iter), 1)
    /\ LexDone =>
         (lex_ret = Err(<<"Invalid escape sequence">>)
            <=> TrailingBackslash(expression) /\ BadPositions(expression) = {})
    /\ lex_ret.kind = "Ok" =>
         TextsOf(lex_ret.tokens, "Backslash") = EscapedFrom(expression, 1)

\* lex consumed an escape and then failed on a trailing backslash.
C6_Witness ==
    /\ lex_ret = Err(<<"Invalid escape sequence">>)
    /\ \E i \in 1..Len(tokens) : tokens[i].kind = "Backslash"

\* C7: lex fails with "Unexpected character: 'c'" exactly when the pattern
\* holds an unescaped character that is no operator, no backslash, not
\* alphanumeric and not whitespace; c is the first such character; and the
\* failure returns no tokens.
C7_UnexpectedChar ==
    LexDone =>
        IF BadPositions(expression) # {}
        THEN /\ lex_ret.kind = "Err"
             /\ lex_ret.msg =
                  <<"Unexpected character: '", expression[FirstBad(expression)], "'">>
             /\ lex_ret.tokens = <<>>
        ELSE lex_ret.kind = "Err" => lex_ret.msg = <<"Invalid escape sequence">>

\* lex had pushed tokens when it met the unsupported character, which is
\* followed by a different unsupported character.
C7_Witness ==
    /\ lex_ret.kind = "Err"
    /\ Len(lex_ret.msg) = 3
    /\ Len(tokens) >= 1
    /\ \E i \in BadPositions(expression) :
         expression[i] # expression[FirstBad(expression)]

-----------------------------------------------------------------------------
(* parser::ASTNode.  A node is [op, children]; the parent field is None   *)
(* in every node the parser builds and is left out.  Option<ASTNode> is   *)
(* the empty sequence (None) or a one-element sequence (Some).            *)

ASTNode_new(op) == [op |-> op, children |-> <<>>]

add_child(node, child) == [node EXCEPT !.children = Append(@, child)]

\* pop_child returns the popped child and leaves the node without it.
pop_child(node) ==
    IF node.children = <<>>
    THEN [node |-> node, child |-> <<>>]
    ELSE [node |-> [node EXCEPT !.children = SubSeq(@, 1, Len(@) - 1)],
          child |-> <<node.children[Len(node.children)]>>]

-----------------------------------------------------------------------------
(* parser::Parser.  A parser is [tokens, current_token_idx, current_node]; *)
(* the expression field is written once and never read, and is left out.   *)
(* A handler returns [parser, ret]: the parser after the call and the      *)
(* Result it returned.                                                     *)

Debug(t) == <<t.kind>> \o t.text

Parser_new(ts) == [tokens |-> ts, current_token_idx |-> 0, current_node |-> <<>>]

parse_parens(p) == [parser |-> p, ret |-> Ok(<<>>)]

parse_literal(p, token) ==
    IF token.kind = "Literal"
    THEN [parser |->
            [p EXCEPT !.current_node =
                        IF @ = <<>> THEN @
                        ELSE <<add_child(@[1], ASTNode_new(token))>>,
                      !.current_token_idx = @ + 1],
          ret |-> Ok(<<>>)]
    ELSE [parser |-> p, ret |-> Err(<<"Expected a literal, found: ">> \o Debug(token))]

\* Variant: the token is counted as consumed before the child is popped.
parse_unary_postfix_eager(p, token) ==
    IF is_unary_postfix(token)
    THEN IF p.current_node = <<>>
         THEN [parser |-> p, ret |-> Err(<<"No current node to apply Kleene star to">>)]
         ELSE LET popped == pop_child(p.current_node[1])
                  q == [p EXCEPT !.current_token_idx = @ + 1]
              IN  IF popped.child = <<>>
                  THEN [parser |-> q, ret |-> Err(<<"No child to apply Kleene star to">>)]
                  ELSE [parser |->
                          [q EXCEPT !.current_node =
                             <<add_child(popped.node,
                                         add_child(ASTNode_new(token), popped.child[1]))>>],
                        ret |-> Ok(<<>>)]
    ELSE [parser |-> p, ret |-> Err(<<"Expected unary postfix token, found: ">> \o Debug(token))]

\* Variant: the last child is read but not popped, so it stays beside its
\* wrapper.
parse_unary_postfix_keep(p, token) ==
    IF is_unary_postfix(token)
    THEN IF p.current_node = <<>>
         THEN [parser |-> p, ret |-> Err(<<"No current node to apply Kleene star to">>)]
         ELSE LET popped == pop_child(p.current_node[1])
              IN  IF popped.child = <<>>
                  THEN [parser |-> p, ret |-> Err(<<"No child to apply Kleene star to">>)]
                  ELSE [parser |->
                          [p EXCEPT !.current_node =
                                      <<add_child(p.current_node[1],
                                                  add_child(ASTNode_new(token), popped.child[1]))>>,
                                    !.current_token_idx = @ + 1],
                        ret |-> Ok(<<>>)]
    ELSE [parser |-> p, ret |-> Err(<<"Expected unary postfix token, found: ">> \o Debug(token))]

\* Variant: a quantifier is refused on a child that is already quantified.
parse_unary_postfix_nostack(p, token) ==
    IF is_unary_postfix(token)
    THEN IF p.current_node = <<>>
         THEN [parser |-> p, ret |-> Err(<<"No current node to apply Kleene star to">>)]
         ELSE LET popped == pop_child(p.current_node[1])
              IN  IF popped.child = <<>> \/ is_unary_postfix(popped.child[1].op)
                  THEN [parser |-> p, ret |-> Err(<<"No child to apply Kleene star to">>)]
                  ELSE [parser |->
                          [p EXCEPT !.current_node =
                                      <<add_child(popped.node,
                                                  add_child(ASTNode_new(token), popped.child[1]))>>,
                                    !.current_token_idx = @ + 1],
                        ret |-> Ok(<<>>)]
    ELSE [parser |-> p, ret |-> Err(<<"Expected unary postfix token, found: ">> \o Debug(token))]

\* Variant: the popped child is not added to the new node.
parse_unary_postfix_drop(p, token) ==
    IF is_unary_postfix(token)
    THEN IF p.current_node = <<>>
         THEN [parser |-> p, ret |-> Err(<<"No current node to apply Kleene star to">>)]
         ELSE LET popped == pop_child(p.current_node[1])
              IN  IF popped.child = <<>>
                  THEN [parser |-> p, ret |-> Err(<<"No child to apply Kleene star to">>)]
                  ELSE [parser |->
                          [p EXCEPT !.current_node =
                                      <<add_child(popped.node, ASTNode_new(token))>>,
                                    !.current_token_idx = @ + 1],
                        ret |-> Ok(<<>>)]
    ELSE [parser |-> p, ret |-> Err(<<"Expected unary postfix token, found: ">> \o Debug(token))]

parse_unary_postfix(p, token) ==
    IF is_unary_postfix(token)
    THEN IF p.current_node = <<>>
         THEN [parser |-> p, ret |-> Err(<<"No current node to apply Kleene star to">>)]
         ELSE LET popped == pop_child(p.current_node[1])
              IN  IF popped.child = <<>>
                  THEN \* the ? operator returns early; pop_child left the node as it was
                       [parser |-> p, ret |-> Err(<<"No child to apply Kleene star to">>)]
                  ELSE [parser |->
                          [p EXCEPT !.current_node =
                                      <<add_child(popped.node,
                                                  add_child(ASTNode_new(token), popped.child[1]))>>,
                                    !.current_token_idx = @ + 1],
                        ret |-> Ok(<<>>)]
    ELSE [parser |-> p, ret |-> Err(<<"Expected unary postfix token, found: ">> \o Debug(token))]

\* The handler parse_next dispatches to for a token.
Handler(token) ==
    CASE token.kind = "Literal" -> "parse_literal"
      [] token.kind # "Literal" /\ is_unary_postfix(token) -> "parse_unary_postfix"
      [] token.kind = "LParen" -> "parse_parens"
      [] OTHER -> "unexpected"

parse_next(p) ==
    IF p.current_token_idx < Len(p.tokens)
    THEN LET token == p.tokens[p.current_token_idx + 1]
             h == Handler(token)
         IN  CASE h = "parse_literal" -> parse_literal(p, token)
               [] h = "parse_unary_postfix" -> parse_unary_postfix(p, token)
               [] h = "parse_parens" -> parse_parens(p)
               [] OTHER -> [parser |-> p, ret |-> Err(<<"Unexpected token: ">> \o Debug(token))]
    ELSE [parser |-> p, ret |-> Err(<<"No tokens to parse">>)]

\* Variant: the loop stops one token early.
loop_condition_short(p) == p.current_token_idx + 1 < Len(p.tokens)

\* The condition of the while loop of parse.
loop_condition(p) == p.current_token_idx < Len(p.tokens)

\* The first statement of parse.
parse_begin(p) == [p EXCEPT !.current_node = <<ASTNode_new(Tok("Program"))>>]

\* The while loop of parse, run to its end.  parse_next is deterministic, so
\* a call that returns Ok and leaves the parser as it was repeats for ever:
\* the result is then "Loop" (parse does not return).
Loop == [kind |-> "Loop", tokens |-> <<>>, msg |-> <<>>]

RECURSIVE ParseLoop(_)
ParseLoop(p) ==
    IF ~loop_condition(p) THEN Ok(<<>>)
    ELSE LET r == parse_next(p)
         IN  IF r.ret.kind = "Err" THEN r.ret
             ELSE IF r.parser = p THEN Loop
             ELSE ParseLoop(r.parser)

parse(p) == ParseLoop(parse_begin(p))

\* parse as steps on the variables.
ParseBegin ==
    /\ parse_pc = "new"
    /\ parser' = parse_begin(parser)
    /\ parse_pc' = "loop"
    /\ UNCHANGED <<parse_ret, last_call, lexVars, regexVars>>

CurrentToken == parser.tokens[parser.current_token_idx + 1]

\* One iteration of the loop: the call of parse_next and the match on its result.
ParseApply(h) ==
    LET r == parse_next(parser)
    IN  /\ parser' = r.parser
        /\ last_call' = h
        /\ IF r.ret.kind = "Err"
           THEN parse_ret' = r.ret /\ parse_pc' = "done"
           ELSE UNCHANGED <<parse_ret, parse_pc>>
        /\ UNCHANGED <<lexVars, regexVars>>

InLoop == parse_pc = "loop" /\ loop_condition(parser)

ParseLiteral ==
    /\ InLoop
    /\ Handler(CurrentToken) = "parse_literal"
    /\ ParseApply("parse_literal")

ParseUnaryPostfix ==
    /\ InLoop
    /\ Handler(CurrentToken) = "parse_unary_postfix"
    /\ ParseApply("parse_unary_postfix")

ParseParens ==
    /\ InLoop
    /\ Handler(CurrentToken) = "parse_parens"
    /\ ParseApply("parse_parens")

ParseUnexpected ==
    /\ InLoop
    /\ Handler(CurrentToken) = "unexpected"
    /\ ParseApply("unexpected")

ParseReturn ==
    /\ parse_pc = "loop"
    /\ ~loop_condition(parser)
    /\ parse_ret' = Ok(<<>>)
    /\ parse_pc' = "done"
    /\ UNCHANGED <<parser, last_call, lexVars, regexVars>>

\* The tokens parsers are built from.
TokenSet ==
    {Literal(<<"a">>), Literal(<<"a", "b">>), Tok("KleeneStar"), Tok("KleenePlus"),
     Tok("Question"), Tok("LParen"), Tok("RParen"), Tok("VBar")}

\* The patterns with a bounded repetition, "a{m}", "a{m,}" and "a{m,n}", and
\* one whose bound is no number; parsers are also built from their tokens, as
\* the tests build them: Parser::new(input, lex(input).unwrap()).
Digits == {"1", "2", "3"}
BracePatterns ==
    {<<"a", "{", m, "}">> : m \in Digits \cup {"b"}}
      \cup {<<"a", "{", m, ",", "}">> : m \in Digits}
      \cup {<<"a", "{", m, ",", n, "}">> : m \in Digits, n \in Digits}

ParseInit ==
    /\ \E ts \in SeqsUpTo(TokenSet, MaxTokens) \cup {lex(e).tokens : e \in BracePatterns} :
         parser = Parser_new(ts)
    /\ parse_pc = "new"
    /\ parse_ret = None
    /\ last_call = "none"
    /\ expression = <<>>
    /\ iter = 0
    /\ tokens = <<>>
    /\ lex_ret = None
    /\ regex = None
    /\ calls = [t \in Threads |-> [pc |-> "idle", text |-> <<>>, ret |-> FALSE]]

ParseNext ==
    ParseBegin \/ ParseLiteral \/ ParseUnaryPostfix \/ ParseParens \/ ParseUnexpected
      \/ ParseReturn

ParseSpec == ParseInit /\ [][ParseNext]_vars

-----------------------------------------------------------------------------
(* Properties of Parser::parse *)

RootChildren == parser.current_node[1].children

AtToken(kinds) ==
    /\ parser.current_token_idx < Len(parser.tokens)
    /\ CurrentToken.kind \in kinds

Quantifiers == {"KleeneStar", "KleenePlus", "Question"}

\* C8: when the loop reaches a '*', '+' or '?' token and the current node
\* has no child to pop, which happens only at the first token, the step
\* ends parse with the error "No child to apply Kleene star to" and leaves
\* the token unconsumed and the tree as it was.
C8_DanglingQuantifier ==
    [][(InLoop /\ AtToken(Quantifiers) /\ RootChildren = <<>>) =>
          /\ parser.current_token_idx = 0
          /\ parse_pc' = "done"
          /\ parse_ret' = Err(<<"No child to apply Kleene star to">>)
          /\ parser' = parser]_vars

\* parse has returned the error for a quantifier that is the first token.
C8_Witness ==
    /\ parse_pc = "done"
    /\ parse_ret = Err(<<"No child to apply Kleene star to">>)
    /\ AtToken(Quantifiers)
    /\ last_call = "parse_unary_postfix"

\* The position of the ')' that closes the '(' at position i of ts, or 0.
RECURSIVE CloserFrom(_, _, _)
CloserFrom(ts, j, depth) ==
    IF j > Len(ts) THEN 0
    ELSE IF ts[j].kind = "LParen" THEN CloserFrom(ts, j + 1, depth + 1)
    ELSE IF ts[j].kind = "RParen"
         THEN IF depth = 0 THEN j ELSE CloserFrom(ts, j + 1, depth - 1)
    ELSE CloserFrom(ts, j + 1, depth)

MatchingRParen(ts, i) == CloserFrom(ts, i + 1, 0)

\* C9: the step of the loop taken at a '(' token runs a nested parse: if no
\* matching ')' follows, parse ends with an error; otherwise the step either
\* consumes the tokens through the matching ')' or ends parse with the error
\* of the nested parse.
C9_Grouping ==
    [][(InLoop /\ AtToken({"LParen"})) =>
          LET m == MatchingRParen(parser.tokens, parser.current_token_idx + 1)
          IN  IF m = 0
              THEN parse_pc' = "done" /\ parse_ret'.kind = "Err"
              ELSE \/ parse_pc' = "done" /\ parse_ret'.kind = "Err"
                   \/ parser'.current_token_idx = m]_vars

\* C10: parse returns Ok only with every token consumed, and a return that
\* leaves tokens over is an error; current_token_idx never exceeds
\* tokens.len() and never decreases, and the tokens are never modified.
C10_Consumed ==
    /\ parser.current_token_idx <= Len(parser.tokens)
    /\ parse_ret.kind = "Ok" => parser.current_token_idx = Len(parser.tokens)
    /\ (parse_pc = "done" /\ parser.current_token_idx < Len(parser.tokens)) =>
          parse_ret.kind = "Err"

C10_LeftToRight ==
    /\ parser'.current_token_idx >= parser.current_token_idx
    /\ parser'.tokens = parser.tokens

C10_FullConsumption == [](C10_Consumed) /\ [][C10_LeftToRight]_vars

\* parse rejected the stray ')' of "a)" after consuming the literal.
C10_Witness ==
    /\ parse_pc = "done"
    /\ parse_ret.kind = "Err"
    /\ parser.tokens = <<Literal(<<"a">>), Tok("RParen")>>
    /\ parser.current_token_idx = 1

-----------------------------------------------------------------------------
(* lib.rs: Regex.  Regex::lex is the crate root's own copy of the lexer,  *)
(* written here as one recursion over the number i of characters taken.   *)

\* Variant: the two bracket arms are exchanged.
Regex_OperatorTokenSwapped(c) ==
    IF c = "[" THEN Tok("RBracket")
    ELSE IF c = "]" THEN Tok("LBracket")
    ELSE OperatorToken(c)

Regex_OperatorToken(c) ==
    CASE c = "*" -> Tok("KleeneStar")
      [] c = "+" -> Tok("KleenePlus")
      [] c = "?" -> Tok("Question")
      [] c = "(" -> Tok("LParen")
      [] c = ")" -> Tok("RParen")
      [] c = "|" -> Tok("VBar")
      [] c = "[" -> Tok("LBracket")
      [] c = "]" -> Tok("RBracket")
      [] c = "{" -> Tok("LBrace")
      [] c = "}" -> Tok("RBrace")
      [] c = "," -> Tok("Comma")
      [] c = "." -> Tok("Dot")
      [] c = "^" -> Tok("Caret")
      [] c = "$" -> Tok("Dollar")
      [] c = "-" -> Tok("Dash")

RECURSIVE Regex_lex_from(_, _, _)
Regex_lex_from(e, i, toks) ==
    IF i >= Len(e) THEN Ok(toks)
    ELSE LET c == e[i + 1]
         IN  IF c \in OperatorChars
             THEN Regex_lex_from(e, i + 1, Append(toks, Regex_OperatorToken(c)))
             ELSE IF c = "\\"
             THEN IF i + 1 < Len(e)
                  THEN Regex_lex_from(e, i + 2, Append(toks, Backslash(e[i + 2])))
                  ELSE Err(<<"Invalid escape sequence">>)
             ELSE IF is_alphanumeric(c) \/ is_whitespace(c)
             THEN LET n == RunLength(e, i + 2)
                  IN  Regex_lex_from(e, i + 1 + n,
                                     Append(toks, Literal(SubSeq(e, i + 1, i + 1 + n))))
             ELSE Err(<<"Unexpected character: '", c, "'">>)

Regex_lex(e) == Regex_lex_from(e, 0, <<>>)

\* Regex::new: the Result holds the tokens of the Regex it wraps.
Regex_new(e) ==
    LET lexed == Regex_lex(e)
    IN  IF lexed.kind = "Err" THEN lexed ELSE Ok(lexed.tokens)

\* Variant: a match consumes the first stored token.
is_match_consuming(self, text) ==
    [ret |-> self = <<>>, self |-> IF self = <<>> THEN self ELSE Tail(self)]

\* is_match: self is the token vector of the Regex; the result is the
\* boolean returned and the token vector after the call.
is_match(self, text) == [ret |-> FALSE, self |-> self]

RegexNew ==
    /\ regex.kind = "None"
    /\ regex' = Regex_new(expression)
    /\ UNCHANGED <<calls, lexVars, parseVars>>

\* A thread calls is_match on the shared Regex.
IsMatchCall(t) ==
    /\ regex.kind = "Ok"
    /\ calls[t].pc # "called"
    /\ \E text \in SeqsUpTo(TextAlphabet, MaxText) \cup {<<"a", "a", "a", "b">>} :
         calls' = [calls EXCEPT ![t] = [pc |-> "called", text |-> text, ret |-> FALSE]]
    /\ UNCHANGED <<regex, lexVars, parseVars>>

\* The call runs and returns.
IsMatchReturn(t) ==
    /\ regex.kind = "Ok"
    /\ calls[t].pc = "called"
    /\ LET r == is_match(regex.tokens, calls[t].text)
       IN  /\ calls' = [calls EXCEPT ![t].pc = "returned", ![t].ret = r.ret]
           /\ regex' = [regex EXCEPT !.tokens = r.self]
    /\ UNCHANGED <<lexVars, parseVars>>

RegexInit ==
    /\ expression \in SeqsUpTo(RegexAlphabet, MaxLen)
    /\ regex = None
    /\ calls = [t \in Threads |-> [pc |-> "idle", text |-> <<>>, ret |-> FALSE]]
    /\ iter = 0
    /\ tokens = <<>>
    /\ lex_ret = None
    /\ parser = ParserIdle
    /\ parse_pc = "idle"
    /\ parse_ret = None
    /\ last_call = "none"

RegexNext ==
    \/ RegexNew
    \/ \E t \in Threads : IsMatchCall(t)
    \/ \E t \in Threads : IsMatchReturn(t)

RegexSpec == RegexInit /\ [][RegexNext]_vars

-----------------------------------------------------------------------------
(* Properties of Regex *)

\* The language of a pattern made of literal characters, each followed by at
\* most one quantifier: an item is a character and "1", "*", "+" or "?".
Quantifier(t) ==
    CASE t.kind = "KleeneStar" -> "*"
      [] t.kind = "KleenePlus" -> "+"
      [] t.kind = "Question" -> "?"

RECURSIVE ItemsOf(_, _)
ItemsOf(ts, acc) ==
    IF ts = <<>> THEN acc
    ELSE IF Head(ts).kind = "Literal"
         THEN ItemsOf(Tail(ts),
                      acc \o [i \in 1..Len(Head(ts).text) |-> [c |-> Head(ts).text[i], q |-> "1"]])
         ELSE ItemsOf(Tail(ts), [acc EXCEPT ![Len(acc)].q = Quantifier(Head(ts))])

\* Literals and quantifiers only, every quantifier directly after a literal.
SimplePattern(ts) ==
    /\ ts # <<>>
    /\ \A i \in 1..Len(ts) :
         \/ ts[i].kind = "Literal"
         \/ ts[i].kind \in {"KleeneStar", "KleenePlus", "Question"}
              /\ i > 1 /\ ts[i - 1].kind = "Literal"

RECURSIVE InLanguage(_, _)
InLanguage(items, text) ==
    IF items = <<>> THEN text = <<>>
    ELSE LET it == Head(items)
             takes == text # <<>> /\ Head(text) = it.c
         IN  CASE it.q = "1" -> takes /\ InLanguage(Tail(items), Tail(text))
               [] it.q = "?" -> \/ InLanguage(Tail(items), text)
                                \/ takes /\ InLanguage(Tail(items), Tail(text))
               [] it.q = "*" -> \/ InLanguage(Tail(items), text)
                                \/ takes /\ InLanguage(items, Tail(text))
               [] it.q = "+" -> takes /\ InLanguage(<<[it EXCEPT !.q = "*"]>> \o Tail(items),
                                                    Tail(text))

Returned(t) == calls[t].pc = "returned"

\* C1: a call of is_match that has returned gave true exactly when the whole
\* text is in the language of the pattern (checked on the patterns made of
\* literals with at most one quantifier each, such as "a*b").
C1_WholeStringMatch ==
    \A t \in Threads :
        (Returned(t) /\ SimplePattern(regex.tokens)) =>
            (calls[t].ret <=> InLanguage(ItemsOf(regex.tokens, <<>>), calls[t].text))

\* C2: when lexing the pattern succeeds and parsing its tokens fails,
\* Regex::new returns an error.
C2_NewReturnsParseError ==
    (regex.kind # "None" /\ Regex_lex(expression).kind = "Ok"
       /\ parse(Parser_new(Regex_lex(expression).tokens)).kind = "Err")
        => regex.kind = "Err"

\* C3: calls of is_match leave the Regex as Regex::new built it, and every
\* call that has returned, whatever calls of other threads ran meanwhile,
\* returned the boolean that the call gives on the Regex as built; so two
\* calls with the same text returned the same boolean.
C3_IsMatchPure ==
    regex.kind = "Ok" =>
        /\ regex = Regex_new(expression)
        /\ \A t \in Threads :
             Returned(t) =>
                /\ calls[t].ret \in BOOLEAN
                /\ calls[t].ret =
                     is_match(Regex_new(expression).tokens, calls[t].text).ret
        /\ \A t, u \in Threads :
             (Returned(t) /\ Returned(u) /\ calls[t].text = calls[u].text) =>
                calls[t].ret = calls[u].ret

\* Both threads have returned from calls with the same text on one Regex,
\* the second call made when the first had already returned.
C3_Witness ==
    /\ regex.kind = "Ok"
    /\ regex.tokens # <<>>
    /\ \A t \in Threads : Returned(t)
    /\ calls["t1"].text = calls["t2"].text
    /\ calls["t1"].text # <<>>

-----------------------------------------------------------------------------
(* Properties of the tree Parser::parse builds *)

DigitValue(c) == CASE c = "1" -> 1 [] c = "2" -> 2 [] c = "3" -> 3

\* The text between the braces of the tokens of "a{...}", and whether it is
\* m, m-comma or m-comma-n with single-digit bounds m <= n.
BraceForm(ts) ==
    /\ Len(ts) >= 4
    /\ ts[1] = Literal(<<"a">>)
    /\ ts[2].kind = "LBrace"
    /\ ts[Len(ts)].kind = "RBrace"

BoundText(ts) == Unlex(SubSeq(ts, 3, Len(ts) - 1))

ValidBound(b) ==
    \/ Len(b) = 1 /\ b[1] \in Digits
    \/ Len(b) = 2 /\ b[1] \in Digits /\ b[2] = ","
    \/ Len(b) = 3 /\ b[1] \in Digits /\ b[2] = "," /\ b[3] \in Digits
         /\ DigitValue(b[1]) <= DigitValue(b[3])

\* C11: when parse has returned for the tokens of "a{...}", it returned Ok
\* if the bound is m, m-comma or m-comma-n with m <= n, and an error if the
\* bound is no number or m > n.
C11_BoundedRepetition ==
    (parse_pc = "done" /\ BraceForm(parser.tokens)) =>
        (parse_ret.kind = "Ok" <=> ValidBound(BoundText(parser.tokens)))

\* C12: the step taken at a '*', '+' or '?' token when the current node has
\* a child replaces the last child X, in place, by a node whose op is that
\* token and whose only child is X; the number of children and the earlier
\* siblings stay as they were, and the token is consumed.  So the tokens of
\* "a*b", "a+b" and "a?b" parse to a Program root with two children, the
\* first being the quantifier node.
C12_WrapStep ==
    (InLoop /\ AtToken(Quantifiers) /\ RootChildren # <<>>) =>
        LET n == Len(RootChildren)
            after == parser'.current_node[1].children
        IN  /\ parse_pc' = "loop"
            /\ parser'.current_token_idx = parser.current_token_idx + 1
            /\ Len(after) = n
            /\ \A i \in 1..(n - 1) : after[i] = RootChildren[i]
            /\ after[n] = [op |-> CurrentToken, children |-> <<RootChildren[n]>>]

C12_Examples ==
    \A q \in Quantifiers :
        (parse_pc = "done"
           /\ parser.tokens = <<Literal(<<"a">>), Tok(q), Literal(<<"b">>)>>) =>
            /\ parse_ret.kind = "Ok"
            /\ parser.current_node[1].op = Tok("Program")
            /\ Len(RootChildren) = 2
            /\ RootChildren[1].op = Tok(q)

RECURSIVE QuantifiedLiterals(_)
QuantifiedLiterals(node) ==
    (IF node.op.kind \in Quantifiers /\ Len(node.children) = 1
          /\ node.children[1].op.kind = "Literal"
     THEN {node} ELSE {})
      \cup UNION {QuantifiedLiterals(node.children[i]) : i \in 1..Len(node.children)}

\* C13: a quantifier that follows a Literal token binds to its last
\* character only: every quantifier node over a Literal has a one-character
\* operand, and the tokens of "ab*" parse to the siblings 'a' and
\* KleeneStar('b').
C13_QuantifierBindsLastChar ==
    parser.current_node # <<>> =>
        /\ \A n \in QuantifiedLiterals(parser.current_node[1]) :
             Len(n.children[1].op.text) = 1
        /\ (parse_pc = "done"
              /\ parser.tokens = <<Literal(<<"a", "b">>), Tok("KleeneStar")>>) =>
             RootChildren =
                <<ASTNode_new(Literal(<<"a">>)),
                  add_child(ASTNode_new(Tok("KleeneStar")), ASTNode_new(Literal(<<"b">>)))>>

\* The chain of quantifier nodes qs around an atom, the last of qs outermost.
RECURSIVE Chain(_, _)
Chain(atom, qs) ==
    IF qs = <<>> THEN atom
    ELSE [op |-> qs[Len(qs)], children |-> <<Chain(atom, SubSeq(qs, 1, Len(qs) - 1))>>]

\* A Literal token followed by two or more quantifier tokens and nothing else.
Stacked(ts) ==
    /\ Len(ts) >= 3
    /\ ts[1].kind = "Literal"
    /\ \A i \in 2..Len(ts) : ts[i].kind \in Quantifiers

\* C14: for an atom followed by k >= 2 quantifier tokens, no step returns
\* an error and parse returns Ok with a single chain of k quantifier nodes
\* under the root: the last quantifier outermost, the atom innermost.
C14_StackedQuantifiers ==
    Stacked(parser.tokens) =>
        /\ parse_ret.kind # "Err"
        /\ parse_pc = "done" =>
             /\ parse_ret.kind = "Ok"
             /\ RootChildren =
                  <<Chain(ASTNode_new(parser.tokens[1]), Tail(parser.tokens))>>

\* parse has returned Ok for the tokens of "a*?+".
C14_Witness ==
    /\ parse_pc = "done"
    /\ parse_ret.kind = "Ok"
    /\ parser.tokens = <<Literal(<<"a">>), Tok("KleeneStar"), Tok("Question"), Tok("KleenePlus")>>

-----------------------------------------------------------------------------
(* The test regex_new *)

\* C15: Regex::new("a*b") succeeds, and on that Regex is_match("aaab")
\* returns true and is_match("b") returns false.
C15_RegexNewTest ==
    (expression = <<"a", "*", "b">> /\ regex.kind # "None") =>
        /\ regex.kind = "Ok"
        /\ \A t \in Threads :
             Returned(t) =>
                /\ calls[t].text = <<"a", "a", "a", "b">> => calls[t].ret = TRUE
                /\ calls[t].text = <<"b">> => calls[t].ret = FALSE

-----------------------------------------------------------------------------
(* Progress and shape of Parser::parse *)

\* C16: every iteration of the loop of parse either ends parse with an
\* error or leaves current_token_idx larger than it was, so that parse
\* returns after at most tokens.len() iterations; in particular at an LParen.
C16_ParseProgress ==
    [][InLoop =>
          \/ parse_pc' = "done" /\ parse_ret'.kind = "Err"
          \/ parser'.current_token_idx > parser.current_token_idx]_vars

RECURSIVE NodeCount(_)
RECURSIVE NodeCountAll(_)
NodeCount(node) == 1 + NodeCountAll(node.children)
NodeCountAll(nodes) ==
    IF nodes = <<>> THEN 0 ELSE NodeCount(Head(nodes)) + NodeCountAll(Tail(nodes))

\* A node and all below it have the shape their op asks for.
RECURSIVE WellShaped(_, _)
WellShaped(node, isRoot) ==
    /\ (node.op.kind = "Program") <=> isRoot
    /\ node.op.kind \in Quantifiers => Len(node.children) = 1
    /\ node.op.kind = "Literal" => node.children = <<>>
    /\ \A i \in 1..Len(node.children) : WellShaped(node.children[i], FALSE)

\* C17: once parse has set current_node, after any number of steps the
\* tree under it has a Program node at the root and nowhere else, every
\* quantifier node has exactly one child, every Literal node is a leaf, and
\* the nodes below the root are as many as the tokens consumed.
C17_TreeShape ==
    parser.current_node # <<>> =>
        /\ WellShaped(parser.current_node[1], TRUE)
        /\ NodeCount(parser.current_node[1]) - 1 = parser.current_token_idx

\* Four tokens consumed into two quantified literals under the root.
C17_Witness ==
    /\ parser.current_node # <<>>
    /\ parser.current_token_idx = 4
    /\ Len(RootChildren) = 2
    /\ \A i \in 1..2 : RootChildren[i].op.kind \in Quantifiers

-----------------------------------------------------------------------------
(* The two lexers *)

\* C18: for every pattern, what lexer::lex returns equals what Regex::lex
\* returns: both Ok with the same tokens, position by position, or both Err
\* with the same message.
C18_LexersAgree ==
    LexDone =>
        LET other == Regex_lex(expression)
        IN  /\ lex_ret.kind = other.kind
            /\ lex_ret.kind = "Ok" =>
                 /\ Len(lex_ret.tokens) = Len(other.tokens)
                 /\ \A i \in 1..Len(other.tokens) : lex_ret.tokens[i] = other.tokens[i]
            /\ lex_ret.kind = "Err" => lex_ret.msg = other.msg

\* lexer::lex has returned a bracket and a two-character literal.
C18_Witness ==
    /\ lex_ret.kind = "Ok"
    /\ Len(lex_ret.tokens) = 2
    /\ lex_ret.tokens[1].kind \in {"LBracket", "RBracket"}
    /\ lex_ret.tokens[2].kind = "Literal"
    /\ Len(lex_ret.tokens[2].text) = 2

====
